---- MODULE Spec2Model ----
(***************************************************************************)
(* Model of the fuel strategy planner of naf_calc (src/src/strat.rs) and   *)
(* of the lap store of a session (src/src/history.rs), and of the          *)
(* Estimator and its SessionProgress (src/src/ircalc.rs).                  *)
(*                                                                         *)
(* Fuel amounts (f32 litres in the source) are integer multiples of a fuel *)
(* unit and lap times (TimeSpan) are integer multiples of a time unit, so  *)
(* all arithmetic is exact.  max_fuel_save, a fraction in [0,1], is the    *)
(* rational save_num / save_den; comparisons with it are cross-multiplied. *)
(***************************************************************************)
EXTENDS Integers, Sequences, FiniteSets

\* ------------------------------------------------------------------ bounds
MaxFuel == 3
MaxYellow == 2
MaxLaps == 5
MaxTime == 3
SaveDen == 4
MaxRecorded == 5
MaxSessionLaps == 1
MaxSessions == 2

\* fuel per lap, lap times, min_fuel and numerators of max_fuel_save tried
FuelRates == {1, 2}

LapTimes == {1, 2}

MinFuels == {0, 1}

SaveNums == {0, 1, 2}

\* session_time values of the telemetry rows while sessions come and go
SessionTimes == {0, 1}

\* req, pc, result, strategy: a planner request and what compute makes of it
\* it: the counters and lists of the loop of stints() while it runs
VARIABLES req, pc, result, strategy, it

\* hist_laps: History.laps, the laps recorded in the session, each numbered
\* db: the Db of the History: open or not, laps_written, and the rows of table
\*     Lap that belong to the session
\* sys: "idle" (no session), "live", "dropped", or "panic"
\* calls: the last two calls made on the History
VARIABLES hist_laps, db, sys, calls

\* state: Estimator.state, "None" or "Some" (a SessionProgress is held)
\* est: the caller's Estimation that every update writes to
\* last, lap_start: the frames SessionProgress keeps between calls
\* def_green: History.def_green is Some
\* ev: what the latest call of update did
\* dtick: the time delta the latest update took off race.time, in seconds
\* sent: the pit-service commands the latest update broadcast, in order
\* pit: what the broadcast block of the latest update read: the settings, the
\*      tank size, the planner's answer and the fuel level of the row
VARIABLES state, est, last, lap_start, def_green, ev, dtick, sent, pit

\* history: a History as its rate functions read it: laps with fuel_used,
\*          time and condition of each lap, and the historical def_green and
\*          def_yellow
\* handed: what History::strat worked out: the green and yellow rates and the
\*         request it hands to the planner
VARIABLES history, handed

\* span: a TimeSpan, in whole seconds and nanoseconds
\* text: what Display writes for it, character by character
\* parsed: what TimeSpan::from_str makes of that text
VARIABLES span, text, parsed

\* race: Estimation.race (fuel, laps, time) with race_laps_estimated and
\*       race_tm_estimated
\* row: the telemetry row the latest call read, whole
\* ended: what ends() made of row
\* lap_rows: the lap-start row and the lap-end row of a lap, each with its
\*           lap_state
\* condition: the condition of that lap
VARIABLES race, row, ended, lap_rows, condition

plannerVars == <<req, pc, result, strategy, it>>

sessionVars == <<hist_laps, db, sys, calls>>

estimatorVars == <<state, est, last, lap_start, def_green, ev, dtick, sent, pit>>

rateVars == <<history, handed>>

spanVars == <<span, text, parsed>>

raceVars == <<race, row, ended, lap_rows, condition>>

vars == <<plannerVars, sessionVars, estimatorVars, rateVars, spanVars, raceVars>>

\* what a call of compute as a whole leaves alone
outsideCompute == <<it, sessionVars, estimatorVars, rateVars, spanVars, raceVars>>

\* ------------------------------------------------------------- value types
Min(a, b) == IF a <= b THEN a ELSE b

Max(a, b) == IF a >= b THEN a ELSE b

\* Rate { fuel, time }
Rates == [fuel : FuelRates, time : LapTimes]

\* enum EndsWith { Laps(l), Time(d), LapsOrTime(l, d) }
EndsWith ==
    {[kind |-> "Laps", l |-> n, d |-> 0] : n \in -1..MaxLaps}
    \cup {[kind |-> "Time", l |-> 0, d |-> t] : t \in 0..MaxTime}
    \cup {[kind |-> "LapsOrTime", l |-> n, d |-> t] : n \in -1..MaxLaps, t \in 0..MaxTime}

\* struct StratRequest; max_fuel_save is save_num / save_den
StratRequest ==
    [fuel_left : 0..MaxFuel,
     tank_size : 1..MaxFuel,
     save_num : SaveNums,
     save_den : {SaveDen},
     min_fuel : MinFuels,
     yellow_togo : 0..MaxYellow,
     ends : EndsWith,
     green : Rates,
     yellow : Rates]

\* Stint::new
StintNew == [laps |-> 0, fuel |-> 0, time |-> 0]

\* Stint::add
StintAdd(stint, lap) ==
    [laps |-> stint.laps + 1, fuel |-> stint.fuel + lap.fuel, time |-> stint.time + lap.time]

\* Pitstop::new
PitstopNew(open, close) == [open |-> open, close |-> close]

\* Default for Strategy
StrategyDefault ==
    [stints |-> <<>>, stops |-> <<>>, fuel_to_save |-> 0,
     green |-> [fuel |-> 0, time |-> 0], yellow |-> [fuel |-> 0, time |-> 0]]

RECURSIVE SumLaps(_)
SumLaps(s) == IF s = <<>> THEN 0 ELSE Head(s).laps + SumLaps(Tail(s))

RECURSIVE SumFuel(_)
SumFuel(s) == IF s = <<>> THEN 0 ELSE Head(s).fuel + SumFuel(Tail(s))

\* Strategy::total_laps
total_laps(s) == SumLaps(s.stints)

\* Strategy::total_fuel
total_fuel(s) == SumFuel(s.stints)

\* all stints but the last: stints.iter().rev().skip(1)
ButLast(s) == IF s = <<>> THEN <<>> ELSE SubSeq(s, 1, Len(s) - 1)

\* Strategy::fuel_target, as the fraction <<numerator, denominator>>
fuel_target(s) ==
    IF s.fuel_to_save > 0 /\ SumLaps(ButLast(s.stints)) > 0
    THEN <<SumFuel(ButLast(s.stints)) - s.fuel_to_save, SumLaps(ButLast(s.stints))>>
    ELSE <<0, 1>>

\* ------------------------------------------------- StratRequest::stints
\* the k-th (0-based) element of yellow.chain(iter::repeat(self.green))
LapAt(r, k) == IF k < r.yellow_togo THEN r.yellow ELSE r.green

\* the take_while predicate with the lap test off by one (laps <= l)
ContinuLapsInclusive(r, laps, tm) ==
    CASE r.ends.kind = "Laps" -> laps <= r.ends.l
      [] r.ends.kind = "Time" -> tm <= r.ends.d
      [] r.ends.kind = "LapsOrTime" -> laps <= r.ends.l /\ tm <= r.ends.d

\* the take_while predicate with a strict time test (tm < d)
ContinuTimeStrict(r, laps, tm) ==
    CASE r.ends.kind = "Laps" -> laps < r.ends.l
      [] r.ends.kind = "Time" -> tm < r.ends.d
      [] r.ends.kind = "LapsOrTime" -> laps < r.ends.l /\ tm < r.ends.d

\* the take_while predicate with LapsOrTime passing a lap that either test passes
ContinuEither(r, laps, tm) ==
    CASE r.ends.kind = "Laps" -> laps < r.ends.l
      [] r.ends.kind = "Time" -> tm <= r.ends.d
      [] r.ends.kind = "LapsOrTime" -> laps < r.ends.l \/ tm <= r.ends.d

\* the take_while predicate
Continu(r, laps, tm) ==
    CASE r.ends.kind = "Laps" -> laps < r.ends.l
      [] r.ends.kind = "Time" -> tm <= r.ends.d
      [] r.ends.kind = "LapsOrTime" -> laps < r.ends.l /\ tm <= r.ends.d

\* a refuel test that stops with a lap of fuel to spare
NeedsStopLapEarly(f, lap, min_fuel) == f < lap.fuel + lap.fuel + min_fuel

\* a refuel test that runs the tank dry before stopping
NeedsStopWhenEmpty(f, lap, min_fuel) == f <= 0

\* the refuel test of the for loop
NeedsStop(f, lap, min_fuel) == f < lap.fuel + min_fuel

\* state of the loops of stints() before any lap
StintsStart(r) ==
    [laps |-> 0, tm |-> 0, f |-> r.fuel_left, stint |-> StintNew, stints |-> <<>>]

\* one lap of the iterator: the closure's counters and the for body
StintsBody(r, st) ==
    LET lap == LapAt(r, st.laps)
        box == NeedsStop(st.f, lap, r.min_fuel)
        f0 == IF box THEN r.tank_size ELSE st.f
        stint0 == IF box THEN StintNew ELSE st.stint
    IN  [laps |-> st.laps + 1,
         tm |-> st.tm + lap.time,
         f |-> f0 - lap.fuel,
         stint |-> StintAdd(stint0, lap),
         stints |-> IF box THEN Append(st.stints, st.stint) ELSE st.stints]

RECURSIVE StintsLoop(_, _)
StintsLoop(r, st) ==
    IF Continu(r, st.laps, st.tm) THEN StintsLoop(r, StintsBody(r, st)) ELSE st

\* the stint in progress when the laps run out is kept if it holds a lap
StintsEnd(e) == IF e.stint.laps > 0 THEN Append(e.stints, e.stint) ELSE e.stints

stints(r) == StintsEnd(StintsLoop(r, StintsStart(r)))

\* -------------------------------------------------- StratRequest::stops
full_stint_len(r) == r.tank_size \div r.green.fuel

wdw_size(ext, laps) == Min(ext, laps)

\* lap_open assigned instead of accumulated
NextLapOpenAssigned(lap_open, laps, wdw) == laps - wdw

NextLapOpen(lap_open, laps, wdw) == lap_open + laps - wdw

\* ext left as it was after a window used some of it
NextExtKept(ext, wdw) == ext

NextExt(ext, wdw) == ext - wdw

\* the loop walking every stint, the last one too
StopsTakeAll(st) == st

\* the stints the loop walks: stints.iter().take(stints.len() - 1)
StopsTake(st) == SubSeq(st, 1, Len(st) - 1)

RECURSIVE StopsLoop(_, _, _, _, _)
StopsLoop(rest, lap_open, lap_close, ext, out) ==
    IF rest = <<>> THEN out
    ELSE LET stint == Head(rest)
             w == wdw_size(ext, stint.laps)
             o == NextLapOpen(lap_open, stint.laps, w)
             c == lap_close + stint.laps
         IN  StopsLoop(Tail(rest), o, c, NextExt(ext, w), Append(out, PitstopNew(o, c)))

stops(r, st) ==
    StopsLoop(StopsTake(st), 0, 0, full_stint_len(r) - st[Len(st)].laps, <<>>)

\* ---------------------------------------------- StratRequest::fuel_save
\* the test with <= for <
SaveTestInclusive(last_stint_fuel, total, save_num, save_den) ==
    last_stint_fuel * save_den <= total * save_num

\* last_stint_fuel < total * max_fuel_save
SaveTest(last_stint_fuel, total, save_num, save_den) ==
    last_stint_fuel * save_den < total * save_num

fuel_save(r, st) ==
    LET total == SumFuel(st)
        last_stint_fuel == st[Len(st)].fuel
    IN  IF SaveTest(last_stint_fuel, total, r.save_num, r.save_den) THEN last_stint_fuel ELSE 0

\* ------------------------------------------------ StratRequest::compute
\* no loop of stints() is being stepped
LoopIdle == it = [StintsStart(req) EXCEPT !.f = 0]

\* ------------------------------------------------------------ History, Db
\* History.db when no file could be opened (None); id counts the rows of
\* table Session
DbNone == [open |-> FALSE, laps_written |-> 0, rows |-> <<>>, id |-> 0]

\* Db::new followed by insert_session: the next session id, no rows yet
DbOpened(prev) == [open |-> TRUE, laps_written |-> 0, rows |-> <<>>, id |-> prev.id + 1]

\* Db::new fails: History.db is None
DbFailed(prev) == [DbNone EXCEPT !.id = prev.id]

\* the Db of the first session of a store
DbNew == DbOpened(DbNone)

\* laps[laps_written..] panics when laps_written is past the end of the list
SlicePanics(d, l) == d.laps_written > Len(l)

\* Db::save_laps: insert laps[laps_written..], then laps_written += laps.len()
DbSaveLaps(d, l) ==
    [d EXCEPT !.rows = @ \o SubSeq(l, d.laps_written + 1, Len(l)),
              !.laps_written = @ + Len(l)]

\* History::save_laps
HistorySavePanics(d, l) == d.open /\ SlicePanics(d, l)

HistorySaveLaps(d, l) == IF d.open THEN DbSaveLaps(d, l) ELSE d

\* the last two calls, with c the latest
Called(c) == IF Len(calls) < 2 THEN Append(calls, c) ELSE <<calls[2], c>>

\* ------------------------------------------- Estimation, telemetry rows
\* the request of the strategy held when none has been written
PlanNone == [fuel_left |-> 0, laps |-> 0]

\* Estimation::default, of the fields the model follows: connected, car.fuel,
\* fuel_last_lap, planned for the fields strat_to_result writes, and plan for
\* the strategy it wrote to stops, next_stop, save, save_target and green,
\* named by the fuel level and the recorded laps it was planned from
EstimationDefault ==
    [connected |-> FALSE, car_fuel |-> 0, fuel_last_lap |-> 0, planned |-> FALSE,
     plan |-> PlanNone]

\* an IRacingTelemetryRow, of the fields update's detections read;
\* lap_progress in hundredths of a lap
FrameZero ==
    [session_time |-> 0, lap_progress |-> 5, fuel_level |-> 0,
     session_state |-> "Racing", surface |-> "OnTrack", is_on_track |-> FALSE]

\* of the row kept as last, is_on_track is never read again
KeepLast(f) == [f EXCEPT !.is_on_track = FrameZero.is_on_track]

\* of the row kept as lap_start, update reads back fuel_level, is_on_track
\* and session_time only
KeepLapStart(f) ==
    [FrameZero EXCEPT !.fuel_level = f.fuel_level, !.is_on_track = f.is_on_track,
                      !.session_time = f.session_time]

\* ------------------------------------------------- pit-service commands
\* fuel is counted in parts of a litre where the commands are worked out
FuelParts == 2

\* f32::ceil of n parts, in whole litres
CeilLitres(n) == -((-n) \div FuelParts)

\* a PitCommand as broadcast; amount is the litres of Fuel(Some(_))
PitCommand(c, n) == [cmd |-> c, amount |-> n]

\* UserSettings, of the fields the broadcast block reads
SettingsDefault ==
    [clear_tires |-> FALSE, take_tires |-> FALSE, extra_fuel |-> 0, extra_laps |-> 0]

\* nothing was read: no broadcast block has run
PitNone ==
    [settings |-> SettingsDefault, tank_size |-> 0,
     strat |-> [some |-> FALSE, total_fuel |-> 0, green_fuel |-> 0], fuel_level |-> 0]

\* the tyre commands: ClearTires, or else the four tyres when take_tires
TireCommands(settings) ==
    IF settings.clear_tires THEN <<PitCommand("ClearTires", 0)>>
    ELSE IF settings.take_tires
         THEN <<PitCommand("LF", 0), PitCommand("RF", 0), PitCommand("LR", 0), PitCommand("RR", 0)>>
         ELSE <<>>

\* the test on add with zero let through as an amount
AddIsNotNegative(add) == add >= 0

\* if add > 0.0
AddIsPositive(add) == add > 0

\* the fuel command: the whole tank when the planner has no answer, else what
\* the plan needs beyond the fuel in the car, with the larger of the extras
FuelCommand(p) ==
    IF ~p.strat.some
    THEN PitCommand("Fuel", CeilLitres(p.tank_size))
    ELSE LET extra == Max(p.settings.extra_fuel, p.strat.green_fuel * p.settings.extra_laps)
             add == CeilLitres(p.strat.total_fuel - p.fuel_level + extra)
         IN  IF AddIsPositive(add) THEN PitCommand("Fuel", add)
             ELSE PitCommand("ClearFuel", 0)

\* what the broadcast block sends on a pit approach, in order
PitCommands(p) == TireCommands(p.settings) \o <<FuelCommand(p)>>

\* no Estimator is running
EstimatorIdle ==
    /\ state = "None"
    /\ est = EstimationDefault
    /\ last = FrameZero
    /\ lap_start = FrameZero
    /\ def_green = FALSE
    /\ ev = {}
    /\ dtick = 0
    /\ sent = <<>>
    /\ pit = PitNone

\* no session exists
SessionIdle ==
    /\ hist_laps = <<>>
    /\ db = DbNone
    /\ sys = "idle"
    /\ calls = <<>>
    /\ EstimatorIdle

\* ------------------------------------------- the rates History works out
\* a quotient num/den, for the averages
Q(n, d) == [num |-> n, den |-> d]

\* Option<Rate>: None, or a Rate of fuel and time per lap
RateNone == [some |-> FALSE, fuel |-> Q(0, 1), time |-> Q(0, 1)]

RateSome(f, t) == [some |-> TRUE, fuel |-> f, time |-> t]

\* Rate::default with the laps added to it counted: sums of fuel and time
FoldZero == [c |-> 0, fuel |-> 0, time |-> 0]

\* .take(5)
GreenTake == 5

\* the fold over every green lap, with take(5) left out
TakesAll(c) == TRUE

\* take(5) lets a lap through while fewer than five went before
Takes(c) == c < GreenTake

\* self.laps.iter().rev().filter(condition.is_empty()).take(5).fold(..), from
\* lap i down
RECURSIVE GreenFold(_, _, _)
GreenFold(l, i, acc) ==
    IF i = 0 \/ ~Takes(acc.c) THEN acc
    ELSE IF l[i].condition = {}
         THEN GreenFold(l, i - 1, [c |-> acc.c + 1, fuel |-> acc.fuel + l[i].fuel_used,
                                   time |-> acc.time + l[i].time])
         ELSE GreenFold(l, i - 1, acc)

\* the historical rate used only when no green lap is recorded
DefaultWhenNoLap(def, c) == def.some /\ c < 1

\* if self.def_green.is_some() && c < 2
DefaultWins(def, c) == def.some /\ c < 2

\* History::recent_green
recent_green(h) ==
    LET acc == GreenFold(h.laps, Len(h.laps), FoldZero)
    IN  IF DefaultWins(h.def_green, acc.c) THEN h.def_green
        ELSE IF acc.c >= 1 THEN RateSome(Q(acc.fuel, acc.c), Q(acc.time, acc.c))
        ELSE RateNone

\* yellow_start kept set once a yellow lap was seen
YellowStartSticky(yellow, start) == yellow \/ start

\* yellow_start after a lap: set by a yellow lap, cleared by any other
YellowStart(yellow, start) == yellow

\* the loop of recent_yellow from lap i on; acc.c and the sums are count and
\* total, start is yellow_start
RECURSIVE YellowFold(_, _, _, _)
YellowFold(l, i, start, acc) ==
    IF i > Len(l) THEN acc
    ELSE LET yellow == "YELLOW" \in l[i].condition
             counted == yellow /\ start
         IN  YellowFold(l, i + 1, YellowStart(yellow, start),
                        IF counted
                        THEN [c |-> acc.c + 1, fuel |-> acc.fuel + l[i].fuel_used,
                              time |-> acc.time + l[i].time]
                        ELSE acc)

\* History::recent_yellow
recent_yellow(h) ==
    LET acc == YellowFold(h.laps, 1, FALSE, FoldZero)
    IN  IF acc.c = 0 THEN h.def_yellow
        ELSE RateSome(Q(acc.fuel, acc.c), Q(acc.time, acc.c))

\* .rev().take_while(condition.intersects(YELLOW)).count(), from lap i down
RECURSIVE YellowLaps(_, _)
YellowLaps(l, i) ==
    IF i = 0 \/ "YELLOW" \notin l[i].condition THEN 0 ELSE 1 + YellowLaps(l, i - 1)

\* a yellow flag is usually at least 3 laps
YellowLength == 3

\* yellow_togo with the test for a lap under yellow left out
YellowTogoUntested(yellow_laps) == Max(0, YellowLength - yellow_laps)

\* yellow_togo of the request
YellowTogo(yellow_laps) ==
    IF yellow_laps > 0 THEN Max(0, YellowLength - yellow_laps) ELSE 0

\* nothing worked out yet
HandedNone ==
    [result |-> "pending", green |-> RateNone, recent_yellow |-> RateNone,
     yellow |-> RateNone, yellow_togo |-> 0]

\* History::strat up to the call of compute: None without a green rate, else
\* the rates and yellow_togo of the request; the yellow rate of the request
\* is a third of the green fuel at four times the green time when
\* recent_yellow has none
HistoryStratRequest(h) ==
    LET green == recent_green(h)
        ry == recent_yellow(h)
    IN  IF ~green.some
        THEN [HandedNone EXCEPT !.result = "None"]
        ELSE [result |-> "request", green |-> green, recent_yellow |-> ry,
              yellow |-> IF ry.some THEN ry
                         ELSE RateSome(Q(green.fuel.num, green.fuel.den * 3),
                                       Q(green.time.num * 4, green.time.den)),
              yellow_togo |-> YellowTogo(YellowLaps(h.laps, Len(h.laps)))]

\* ---------------------------------------------- TimeSpan as text
\* the ten digits as characters
Digits == <<"0", "1", "2", "3", "4", "5", "6", "7", "8", "9">>

\* the digits of n as {} writes them: no padding
RECURSIVE Decimal(_)
Decimal(n) ==
    IF n < 10 THEN <<Digits[n + 1]>>
    ELSE Append(Decimal(n \div 10), Digits[(n % 10) + 1])

\* {:02} written as {}: no padding
Unpadded(n) == Decimal(n)

\* {:02}: at least two digits
Padded(n) == IF n < 10 THEN <<"0">> \o Decimal(n) ELSE Decimal(n)

\* Duration::new(60 * 60, 0), in seconds
ONE_HR == 3600

\* Display for TimeSpan: h:mm:ss from an hour on, else mm:ss, of as_secs()
Display(t) ==
    IF t.secs >= ONE_HR
    THEN Decimal(t.secs \div 3600) \o <<":">> \o Padded((t.secs % 3600) \div 60)
           \o <<":">> \o Padded(t.secs % 60)
    ELSE Padded(t.secs \div 60) \o <<":">> \o Padded(t.secs % 60)

\* \d of the regex
IsDigit(c) == \E i \in 1 .. 10 : Digits[i] = c

\* u64::from_str of the digits s[a..b]
RECURSIVE Number(_, _, _)
Number(s, a, b) ==
    IF b < a THEN 0
    ELSE Number(s, a, b - 1) * 10 + ((CHOOSE i \in 1 .. 10 : Digits[i] = s[b]) - 1)

\* s without the white space of \s* at both ends
RECURSIVE Trimmed(_)
Trimmed(s) ==
    IF s # <<>> /\ s[1] = " " THEN Trimmed(Tail(s))
    ELSE IF s # <<>> /\ s[Len(s)] = " " THEN Trimmed(SubSeq(s, 1, Len(s) - 1))
    ELSE s

\* (\d{2}):(\d{2}) at s[a..a+4]
MinSec(s, a) ==
    /\ IsDigit(s[a]) /\ IsDigit(s[a + 1]) /\ s[a + 2] = ":"
    /\ IsDigit(s[a + 3]) /\ IsDigit(s[a + 4])

\* Err(ParseError::Empty)
ParseErr == [ok |-> FALSE, secs |-> 0, nanos |-> 0]

\* TimeSpan::from_str: the regex ^\s*(?:(\d{1,2}):)??(\d{2}):(\d{2})\s*$
\* with k the number of hour digits, and TimeSpan::new(secs + mins + hours, 0)
from_str(s) ==
    LET t == Trimmed(s)
        k == Len(t) - 6
    IN  IF Len(t) = 5 /\ MinSec(t, 1)
        THEN [ok |-> TRUE, secs |-> Number(t, 4, 5) + Number(t, 1, 2) * 60, nanos |-> 0]
        ELSE IF k \in {1, 2} /\ (\A i \in 1 .. k : IsDigit(t[i])) /\ t[k + 1] = ":"
                  /\ MinSec(t, k + 2)
        THEN [ok |-> TRUE,
              secs |-> Number(t, k + 5, k + 6) + Number(t, k + 2, k + 3) * 60
                         + Number(t, 1, k) * 60 * 60,
              nanos |-> 0]
        ELSE ParseErr

\* nothing parsed yet
ParsedNone == [ok |-> FALSE, secs |-> -1, nanos |-> 0]

\* no TimeSpan is being written or read
SpanIdle ==
    /\ span = [secs |-> 0, nanos |-> 0]
    /\ text = <<>>
    /\ parsed = ParsedNone

\* the sentinels of the wire for "unlimited"
IRSDK_UNLIMITED_LAPS == 32767

IRSDK_UNLIMITED_TIME == 604800

\* Estimation::default: race is AmountLeft::default and both flags are true
RaceDefault ==
    [fuel |-> 0, laps |-> 0, time |-> 0, laps_estimated |-> TRUE, tm_estimated |-> TRUE]

\* no row read yet
RowNone ==
    [session_state |-> "Invalid", session_time |-> 0,
     session_time_remain |-> 0, session_laps_remain |-> 0,
     session_time_total |-> 0, session_laps_total |-> 0]

\* ends() not called yet
EndedNone == [kind |-> "None", l |-> 0, d |-> 0]

\* nothing read, nothing written to Estimation.race, no lap made
RaceIdle ==
    /\ race = RaceDefault
    /\ row = RowNone
    /\ ended = EndedNone
    /\ lap_rows = <<>>
    /\ condition = {}

\* a History with no lap and no historical rate
HistoryNone == [laps |-> <<>>, def_green |-> RateNone, def_yellow |-> RateNone]

\* no rate is being worked out
RatesIdle ==
    /\ history = HistoryNone
    /\ handed = HandedNone

Init ==
    /\ req \in StratRequest
    /\ pc = "request"
    /\ result = "pending"
    /\ strategy = StrategyDefault
    /\ LoopIdle
    /\ SessionIdle
    /\ RatesIdle
    /\ SpanIdle
    /\ RaceIdle

ComputeNone ==
    /\ pc = "request"
    /\ stints(req) = <<>>
    /\ pc' = "done"
    /\ result' = "None"
    /\ UNCHANGED <<req, strategy>>
    /\ UNCHANGED outsideCompute

ComputeSome ==
    /\ pc = "request"
    /\ stints(req) # <<>>
    /\ pc' = "done"
    /\ result' = "Some"
    /\ strategy' = [stints |-> stints(req),
                    stops |-> stops(req, stints(req)),
                    fuel_to_save |-> fuel_save(req, stints(req)),
                    green |-> req.green,
                    yellow |-> req.yellow]
    /\ UNCHANGED req
    /\ UNCHANGED outsideCompute

Next == ComputeNone \/ ComputeSome

Spec == Init /\ [][Next]_vars

\* requests on which a full tank lasts at least one lap of either kind under
\* the refuel test, as for a car that has driven the laps the rates come from
Feasible(r) == r.tank_size >= Max(r.green.fuel, r.yellow.fuel) + r.min_fuel

InitFeasible == Init /\ Feasible(req)

SpecFeasible == InitFeasible /\ [][Next]_vars

\* the request with its end condition replaced
WithEnds(r, kind, l, d) == [r EXCEPT !.ends = [kind |-> kind, l |-> l, d |-> d]]

\* the requests of the planner tests, in units of 0.1 litre and 1 second
\* strat_no_stops
ScenarioA ==
    [fuel_left |-> 95, tank_size |-> 200, save_num |-> 0, save_den |-> 10, min_fuel |-> 0,
     yellow_togo |-> 0, ends |-> [kind |-> "Laps", l |-> 5, d |-> 0],
     green |-> [fuel |-> 5, time |-> 40], yellow |-> [fuel |-> 1, time |-> 40]]

\* strat_one_stop_laps
ScenarioB == [ScenarioA EXCEPT !.tank_size = 100, !.ends.l = 34]

\* strat_one_stop_time
ScenarioC ==
    [fuel_left |-> 50, tank_size |-> 100, save_num |-> 0, save_den |-> 10, min_fuel |-> 0,
     yellow_togo |-> 2, ends |-> [kind |-> "Time", l |-> 0, d |-> 300],
     green |-> [fuel |-> 10, time |-> 30], yellow |-> [fuel |-> 1, time |-> 55]]

\* strat_two_stops
ScenarioD == [ScenarioB EXCEPT !.fuel_left = 93, !.ends.l = 49]

\* strat_two_stops_with_splash
ScenarioE == [ScenarioB EXCEPT !.fuel_left = 15, !.ends.l = 29]

\* strat_two_stops_fuel_save
ScenarioF ==
    [fuel_left |-> 90, tank_size |-> 200, save_num |-> 1, save_den |-> 10, min_fuel |-> 0,
     yellow_togo |-> 0, ends |-> [kind |-> "Laps", l |-> 50, d |-> 0],
     green |-> [fuel |-> 10, time |-> 40], yellow |-> [fuel |-> 1, time |-> 160]]

\* the tests' requests and the same requests with every shorter race
ScenarioRequests ==
    {WithEnds(s, "Laps", n, 0) : s \in {ScenarioA, ScenarioB, ScenarioD, ScenarioE, ScenarioF},
                                n \in 0..ScenarioF.ends.l}
    \cup {WithEnds(ScenarioC, "Time", 0, t) : t \in 0..ScenarioC.ends.d}

InitScenario ==
    /\ req \in ScenarioRequests
    /\ pc = "request"
    /\ result = "pending"
    /\ strategy = StrategyDefault
    /\ LoopIdle
    /\ SessionIdle
    /\ RatesIdle
    /\ SpanIdle
    /\ RaceIdle

SpecScenario == InitScenario /\ [][Next]_vars

Returned == pc = "done" /\ result = "Some"

\* laps of the returned plan (none when compute returned None)
PlannedLaps == IF result = "Some" THEN total_laps(strategy) ELSE 0

LastStint == strategy.stints[Len(strategy.stints)]

\* ------------------------------------- StratRequest::compute, lap by lap
\* lap times of the stepped requests: a Rate may hold a zero TimeSpan
\* (Rate::default)
LoopLapTimes == {0} \cup LapTimes

\* requests whose loop is stepped; the tank holds a lap of either kind
LoopRequests ==
    [fuel_left : 0..MaxFuel,
     tank_size : {MaxFuel},
     save_num : {0},
     save_den : {SaveDen},
     min_fuel : MinFuels,
     yellow_togo : 0..MaxYellow,
     ends : EndsWith,
     green : [fuel : FuelRates, time : LoopLapTimes],
     yellow : [fuel : {1}, time : LoopLapTimes]]

\* stands for i32::MAX, the largest value of the closure's lap counter; no
\* request of the model whose laps run out needs this many laps
LapCounterMax == MaxYellow + MaxLaps + MaxTime + 2

InitLoop ==
    /\ req \in LoopRequests
    /\ pc = "request"
    /\ result = "pending"
    /\ strategy = StrategyDefault
    /\ it = StintsStart(req)
    /\ SessionIdle
    /\ RatesIdle
    /\ SpanIdle
    /\ RaceIdle

\* the iterator yields one more lap and the for body runs on it
StintsLap ==
    /\ pc = "request"
    /\ Continu(req, it.laps, it.tm)
    /\ it.laps < LapCounterMax
    /\ it' = StintsBody(req, it)
    /\ UNCHANGED <<req, pc, result, strategy, sessionVars, estimatorVars, rateVars, spanVars, raceVars>>

\* the iterator would yield a lap with the lap counter at its largest value:
\* laps += 1 overflows (a panic in a debug build; a release build wraps and
\* goes on pushing stints until memory runs out); compute does not return
StintsOverflow ==
    /\ pc = "request"
    /\ Continu(req, it.laps, it.tm)
    /\ it.laps = LapCounterMax
    /\ pc' = "aborted"
    /\ UNCHANGED <<req, result, strategy, it, sessionVars, estimatorVars, rateVars, spanVars, raceVars>>

\* the iterator ends with no stint: compute returns None
LoopNone ==
    /\ pc = "request"
    /\ ~Continu(req, it.laps, it.tm)
    /\ StintsEnd(it) = <<>>
    /\ pc' = "done"
    /\ result' = "None"
    /\ UNCHANGED <<req, strategy, it, sessionVars, estimatorVars, rateVars, spanVars, raceVars>>

\* the iterator ends with stints: compute returns Some
LoopSome ==
    /\ pc = "request"
    /\ ~Continu(req, it.laps, it.tm)
    /\ StintsEnd(it) # <<>>
    /\ pc' = "done"
    /\ result' = "Some"
    /\ strategy' = [stints |-> StintsEnd(it),
                    stops |-> stops(req, StintsEnd(it)),
                    fuel_to_save |-> fuel_save(req, StintsEnd(it)),
                    green |-> req.green,
                    yellow |-> req.yellow]
    /\ UNCHANGED <<req, it, sessionVars, estimatorVars, rateVars, spanVars, raceVars>>

NextLoop == StintsLap \/ StintsOverflow \/ LoopNone \/ LoopSome

SpecLoop == InitLoop /\ [][NextLoop]_vars

\* ------------------------------------------- the lap store of a session
\* no planner request is at hand
PlannerIdle ==
    /\ req = ScenarioA
    /\ pc = "idle"
    /\ result = "pending"
    /\ strategy = StrategyDefault
    /\ LoopIdle

\* a session has been attached with a working store
InitStore ==
    /\ PlannerIdle
    /\ RatesIdle
    /\ SpanIdle
    /\ RaceIdle
    /\ hist_laps = <<>>
    /\ db = DbNew
    /\ sys = "live"
    /\ calls = <<>>
    /\ EstimatorIdle

\* History::add_lap, at a lap boundary
AddLap ==
    /\ sys = "live"
    /\ Len(hist_laps) < MaxRecorded
    /\ hist_laps' = Append(hist_laps, Len(hist_laps) + 1)
    /\ calls' = Called("add_lap")
    /\ UNCHANGED <<db, sys, plannerVars, estimatorVars, rateVars, spanVars, raceVars>>

\* a session reset: update calls save_laps on the whole list and goes on
ResetSave ==
    /\ sys = "live"
    /\ ~HistorySavePanics(db, hist_laps)
    /\ db' = HistorySaveLaps(db, hist_laps)
    /\ calls' = Called("save_laps")
    /\ UNCHANGED <<hist_laps, sys, plannerVars, estimatorVars, rateVars, spanVars, raceVars>>

\* the session is dropped: Drop calls save_laps on the whole list
DropSave ==
    /\ sys = "live"
    /\ ~HistorySavePanics(db, hist_laps)
    /\ db' = HistorySaveLaps(db, hist_laps)
    /\ sys' = "dropped"
    /\ calls' = Called("save_laps")
    /\ UNCHANGED <<hist_laps, plannerVars, estimatorVars, rateVars, spanVars, raceVars>>

\* save_laps, called at a reset or by Drop, panics on the slice; the
\* transaction is rolled back
SavePanic ==
    /\ sys = "live"
    /\ HistorySavePanics(db, hist_laps)
    /\ sys' = "panic"
    /\ calls' = Called("save_laps")
    /\ UNCHANGED <<hist_laps, db, plannerVars, estimatorVars, rateVars, spanVars, raceVars>>

NextStore == AddLap \/ ResetSave \/ DropSave \/ SavePanic

SpecStore == InitStore /\ [][NextStore]_vars

\* ---------------------------------------------- SessionProgress::update
\* the lap-boundary test on session_state, with CoolDown left out
RecordsLapsButCheckered(session_state) == session_state # "Checkered"

\* the lap-boundary test on session_state
RecordsLaps(session_state) == session_state # "Checkered" /\ session_state # "CoolDown"

\* History::strat returns a strategy: recent_green has a rate, a default or
\* a recorded lap to average (laps are taken to be green and the race to
\* have a lap left)
StratIsSome(l, def) == def \/ Len(l) > 0

\* the session reset with self.last left as it was
LastAfterResetKept(reset, this, l) == l

\* self.last after the test for a session reset
LastAfterReset(reset, this, l) == IF reset THEN this ELSE l

\* the test for a pit approach with the surface of the last row left out
PitApproachWhileThere(surface, last_surface) == surface = "ApproachingPits"

\* the row is approaching the pits and the last row was not
PitApproach(surface, last_surface) ==
    surface = "ApproachingPits" /\ last_surface # "ApproachingPits"

\* strat_to_result run on every call, with or without a strategy asked for
WrittenAlways(called, new, old) == new

\* the strategy fields of the Estimation after a place that calls
\* strat_to_result when the planner answers
Written(called, new, old) == IF called THEN new ELSE old

\* a session reset that starts the lap list afresh
LapsAfterResetCleared(reset, l) == IF reset THEN <<>> ELSE l

\* History.laps after the test for a session reset: save_laps reads the
\* list and leaves it as it is
LapsAfterReset(reset, l) == l

\* History::add_lap
add_lap(l, x) == Append(l, x)

\* interpolate_checkpoint_time for check_pos = 0, positions in hundredths of a
\* lap: the time the line was crossed, as a quotient <<numerator, denominator>>
interpolate_checkpoint_time(end_of_lap_pos, end_of_lap_tm, start_of_lap_pos, start_of_lap_tm) ==
    LET end_pos == IF end_of_lap_pos > start_of_lap_pos
                   THEN end_of_lap_pos - 100 ELSE end_of_lap_pos
    IN  <<end_of_lap_tm * (start_of_lap_pos - end_pos)
              + (start_of_lap_tm - end_of_lap_tm) * (0 - end_pos),
          start_of_lap_pos - end_pos>>

\* TimeSpan::sub panics: the Duration taken away is the longer one
SubPanics(crossing, start_tm) == crossing[1] < start_tm * crossing[2]

\* the fall of the fuel level with a refuel taken for a negative burn
BurnedOrRefuelled(last_fuel, fuel) == last_fuel - fuel

\* (self.last.fuel_level - this.fuel_level).max(0.0)
Burned(last_fuel, fuel) == Max(last_fuel - fuel, 0)

\* update from the row `this` on, in the order of the code; s holds last,
\* lap_start, laps, est and def of the session
Tick(s, this) ==
    LET reset == this.session_time < s.last.session_time
        last1 == LastAfterReset(reset, this, s.last)
        start1 == IF reset THEN this ELSE s.lap_start
        laps0 == LapsAfterReset(reset, s.laps)
        start2 == IF ~start1.is_on_track /\ this.is_on_track THEN this ELSE start1
        pit_exit == last1.surface = "InPitStall" /\ this.surface # last1.surface
        start3 == IF pit_exit THEN this ELSE start2
        parade == this.session_state = "ParadeLaps"
                    /\ last1.session_state # this.session_state
        start4 == IF parade THEN this ELSE start3
        boundary == this.lap_progress < 10 /\ last1.lap_progress > 90
        fuel_used == start4.fuel_level - this.fuel_level
        records == boundary /\ RecordsLaps(this.session_state)
        add == records /\ fuel_used > 0
        laps1 == IF add THEN add_lap(laps0, Len(laps0) + 1) ELSE laps0
        crossing == interpolate_checkpoint_time(last1.lap_progress, last1.session_time,
                                                this.lap_progress, this.session_time)
        shown == \/ (pit_exit \/ parade) /\ StratIsSome(laps0, s.def)
                 \/ records /\ StratIsSome(laps1, s.def)
        approach == PitApproach(this.surface, last1.surface)
        plan1 == Written((pit_exit \/ parade) /\ StratIsSome(laps0, s.def),
                         [fuel_left |-> this.fuel_level, laps |-> Len(laps0)], s.est.plan)
        plan2 == Written(records /\ StratIsSome(laps1, s.def),
                         [fuel_left |-> this.fuel_level, laps |-> Len(laps1)], plan1)
    IN  [reset |-> reset,
         underflow |-> boundary /\ SubPanics(crossing, start4.session_time),
         approach |-> approach,
         written |-> shown,
         burned |-> Burned(last1.fuel_level, this.fuel_level),
         dtick |-> this.session_time - last1.session_time,
         last |-> KeepLast(this),
         lap_start |-> KeepLapStart(IF boundary THEN this ELSE start4),
         laps |-> laps1,
         est |-> [s.est EXCEPT !.car_fuel = this.fuel_level,
                               !.fuel_last_lap = IF boundary THEN fuel_used ELSE @,
                               !.planned = @ \/ shown,
                               !.plan = plan2],
         ev |-> {e \in {"reset", "boundary", "add_lap", "strat_lap", "strat_fixup", "pit_cmd",
                         "strat_written"} :
                   \/ e = "reset" /\ reset
                   \/ e = "strat_written" /\ shown
                   \/ e = "boundary" /\ boundary
                   \/ e = "add_lap" /\ add
                   \/ e = "strat_lap" /\ records
                   \/ e = "strat_fixup" /\ (pit_exit \/ parade)
                   \/ e = "pit_cmd" /\ approach}]

\* what the broadcast block reads on a pit approach, out of the settings,
\* tank sizes and planner answers in pits: the planner answers when History
\* has a green rate, and the fuel level is that of the row
PitReads(pits, t, this, def) ==
    IF t.approach
    THEN {p \in pits : p.strat.some = StratIsSome(t.laps, def) /\ p.fuel_level = this.fuel_level}
    ELSE {PitNone}

\* the commands of a call: those of the broadcast block on a pit approach
Broadcast(t, p) == IF t.approach THEN PitCommands(p) ELSE <<>>

\* the session as update finds it
Held == [last |-> last, lap_start |-> lap_start, laps |-> hist_laps, est |-> est, def |-> def_green]

\* no row of TickFrames approaches the pits: nothing is read for a broadcast
TickPits == {PitNone}

\* rows read while a session is driven with the store left out: no session
\* reset, no pit approach
TickFrames ==
    [session_time : {0}, lap_progress : {5, 95}, fuel_level : {1, 2},
     session_state : {"ParadeLaps", "Racing", "Checkered", "CoolDown"},
     surface : {"OnTrack", "InPitStall"}, is_on_track : BOOLEAN]

\* a session is held, attached without a store (History.db is None)
InitTick ==
    /\ PlannerIdle
    /\ RatesIdle
    /\ SpanIdle
    /\ RaceIdle
    /\ hist_laps = <<>>
    /\ db = DbNone
    /\ sys = "live"
    /\ calls = <<>>
    /\ state = "Some"
    /\ def_green \in BOOLEAN
    /\ \E first \in TickFrames :
          /\ last = KeepLast(first)
          /\ lap_start = KeepLapStart(first)
          /\ est = [EstimationDefault EXCEPT !.connected = TRUE]
    /\ ev = {}
    /\ dtick = 0
    /\ sent = <<>>
    /\ pit = PitNone

\* Estimator::update on a held session whose data is fresh
UpdateTick ==
    /\ sys = "live"
    /\ state = "Some"
    /\ \E this \in TickFrames : \E t \in {Tick(Held, this)} :
          /\ Len(t.laps) <= MaxSessionLaps
          /\ ~t.underflow
          /\ last' = t.last
          /\ lap_start' = t.lap_start
          /\ hist_laps' = t.laps
          /\ est' = t.est
          /\ ev' = t.ev
          /\ dtick' = t.dtick
          /\ \E p \in PitReads(TickPits, t, this, def_green) :
                pit' = p /\ sent' = Broadcast(t, p)
    /\ UNCHANGED <<db, sys, calls, state, def_green, plannerVars, rateVars, spanVars, raceVars>>

NextTick == UpdateTick

SpecTick == InitTick /\ [][NextTick]_vars

\* ----------------------------------------------------- Estimator::update
\* rows read while sessions come and go: on track, racing
EstFrames ==
    [session_time : SessionTimes, lap_progress : {5, 95}, fuel_level : {1, 2},
     session_state : {"Racing"}, surface : {"OnTrack"}, is_on_track : {TRUE}]

\* the arm for SessionExpired with the Estimation left as it was
ExpiredResultKept(e) == e

\* the arm for SessionExpired: *result = Estimation::default()
ExpiredResult(e) == EstimationDefault

\* the arm for SessionExpired with the session kept
ExpiredStateKept == "Some"

\* the arm for SessionExpired: self.state = None
ExpiredState == "None"

\* the Estimator has been made and the caller's Estimation is the default
InitEstimator ==
    /\ PlannerIdle
    /\ RatesIdle
    /\ SpanIdle
    /\ RaceIdle
    /\ hist_laps = <<>>
    /\ db = DbNone
    /\ sys = "live"
    /\ calls = <<>>
    /\ EstimatorIdle

\* SessionProgress::new on an offered session: History::new with the store
\* opening or not (open) and the averages read or not (def), and the first
\* row read; then result.connected = true
Attached(open, def, first) ==
    [last |-> KeepLast(first), lap_start |-> KeepLapStart(first), laps |-> <<>>,
     est |-> [est EXCEPT !.connected = TRUE], def |-> def]

\* SessionProgress::update on fresh data, for the session s with Db d:
\* at a session reset save_laps().unwrap() panics when the save fails or the
\* slice is out of range; evs are the events of the call so far
RunUpdateRow(this, pits, s, d, evs) ==
      \E save_ok \in IF this.session_time < s.last.session_time /\ d.open
                      THEN BOOLEAN ELSE {TRUE} :
        \E t \in {Tick(s, this)} :
          LET panics == t.reset /\ d.open /\ (SlicePanics(d, s.laps) \/ ~save_ok)
          IN  /\ Len(t.laps) <= MaxSessionLaps
              /\ state' = "Some"
              /\ def_green' = s.def
              /\ IF panics \/ t.underflow
                 THEN /\ sys' = "panic"
                      /\ ev' = evs \cup (IF panics
                                         THEN {"reset", IF SlicePanics(d, s.laps)
                                                        THEN "slice_panic" ELSE "save_laps_failed"}
                                         ELSE {"lap_time_underflow"})
                      /\ last' = s.last
                      /\ lap_start' = s.lap_start
                      /\ hist_laps' = s.laps
                      /\ est' = s.est
                      /\ db' = d
                      /\ dtick' = 0
                      /\ sent' = <<>>
                      /\ pit' = PitNone
                 ELSE /\ sys' = sys
                      /\ ev' = evs \cup t.ev
                      /\ last' = t.last
                      /\ lap_start' = t.lap_start
                      /\ hist_laps' = t.laps
                      /\ est' = t.est
                      /\ db' = IF t.reset THEN HistorySaveLaps(d, s.laps) ELSE d
                      /\ dtick' = t.dtick
                      /\ \E p \in PitReads(pits, t, this, s.def) :
                            pit' = p /\ sent' = Broadcast(t, p)

\* update on a row out of frames
RunUpdateOn(frames, pits, s, d, evs) ==
    \E this \in frames : RunUpdateRow(this, pits, s, d, evs)

\* update on the rows read while sessions come and go
RunUpdate(s, d, evs) == RunUpdateOn(EstFrames, TickPits, s, d, evs)

\* what is left of a Db when its History is gone: the rows of its session
DbClosed(d) == [DbNone EXCEPT !.rows = d.rows, !.id = d.id]

\* the session is dropped on SessionExpired: Drop calls save_laps and ignores
\* an Err; a slice out of range panics; the SessionProgress and its History
\* are gone afterwards
RunExpired(l, d, evs) ==
    \E save_ok \in IF d.open THEN BOOLEAN ELSE {TRUE} :
        /\ state' = ExpiredState
        /\ est' = ExpiredResult(est)
        /\ hist_laps' = <<>>
        /\ last' = FrameZero
        /\ lap_start' = FrameZero
        /\ def_green' = FALSE
        /\ sys' = IF HistorySavePanics(d, l) THEN "panic" ELSE sys
        /\ ev' = evs \cup {"expired"} \cup (IF HistorySavePanics(d, l) THEN {"slice_panic"} ELSE {})
        /\ db' = DbClosed(IF save_ok /\ ~HistorySavePanics(d, l) THEN HistorySaveLaps(d, l) ELSE d)
        /\ UNCHANGED <<dtick, sent, pit>>

\* no session held and the source has none
PollAbsent ==
    /\ sys = "live" /\ state = "None"
    /\ est' = EstimationDefault
    /\ ev' = {"poll"}
    /\ UNCHANGED <<state, last, lap_start, def_green, hist_laps, db, sys, calls, dtick, sent, pit, plannerVars, rateVars, spanVars, raceVars>>

\* no session held, one is offered, and SessionProgress::new returns Err (the
\* first row cannot be read); the History made for it is discarded
AttachRejected ==
    /\ sys = "live" /\ state = "None" /\ db.id < MaxSessions
    /\ \E open \in BOOLEAN : db' = DbClosed(IF open THEN DbOpened(db) ELSE DbFailed(db))
    /\ hist_laps' = <<>>
    /\ est' = EstimationDefault
    /\ ev' = {"poll", "offered", "new_failed"}
    /\ UNCHANGED <<state, last, lap_start, def_green, sys, calls, dtick, sent, pit, plannerVars, rateVars, spanVars, raceVars>>

\* no session held, one is offered, the store opens and insert_session
\* fails: History::new panics on expect("failed to insert session")
AttachPanics ==
    /\ sys = "live" /\ state = "None" /\ db.id < MaxSessions
    /\ sys' = "panic"
    /\ ev' = {"poll", "offered", "insert_session_failed"}
    /\ UNCHANGED <<state, est, last, lap_start, def_green, hist_laps, db, calls, dtick, sent, pit, plannerVars, rateVars, spanVars, raceVars>>

\* no session held, one is offered and attached, and updated in the same call
AttachUpdate ==
    /\ sys = "live" /\ state = "None" /\ db.id < MaxSessions
    /\ \E open \in BOOLEAN, first \in EstFrames :
        \E def \in IF open THEN BOOLEAN ELSE {FALSE} :
          RunUpdate(Attached(open, def, first),
                    IF open THEN DbOpened(db) ELSE DbFailed(db),
                    {"poll", "offered", "attached"})
    /\ UNCHANGED <<calls, plannerVars, rateVars, spanVars, raceVars>>

\* no session held, one is offered and attached, and found expired in the
\* same call
AttachExpired ==
    /\ sys = "live" /\ state = "None" /\ db.id < MaxSessions
    /\ \E open \in BOOLEAN :
          RunExpired(<<>>, IF open THEN DbOpened(db) ELSE DbFailed(db),
                     {"poll", "offered", "attached"})
    /\ UNCHANGED <<calls, plannerVars, rateVars, spanVars, raceVars>>

\* a session is held and its data is fresh
HeldUpdate ==
    /\ sys = "live" /\ state = "Some"
    /\ RunUpdate(Held, db, {})
    /\ UNCHANGED <<calls, plannerVars, rateVars, spanVars, raceVars>>

\* a session is held and get_new_data reports SessionExpired
HeldExpired ==
    /\ sys = "live" /\ state = "Some"
    /\ RunExpired(hist_laps, db, {})
    /\ UNCHANGED <<calls, plannerVars, rateVars, spanVars, raceVars>>

\* a session is held and the row cannot be read: update returns another
\* error and Estimator::update panics on it
HeldReadPanics ==
    /\ sys = "live" /\ state = "Some"
    /\ sys' = "panic"
    /\ ev' = {"read_failed"}
    /\ UNCHANGED <<state, est, last, lap_start, def_green, hist_laps, db, calls, dtick, sent, pit, plannerVars, rateVars, spanVars, raceVars>>

NextEstimator ==
    \/ PollAbsent \/ AttachRejected \/ AttachPanics \/ AttachUpdate \/ AttachExpired
    \/ HeldUpdate \/ HeldExpired \/ HeldReadPanics

SpecEstimator == InitEstimator /\ [][NextEstimator]_vars

\* ------------------------------------------ a session with pit visits
\* rows read while a session with a working store is driven through session
\* resets, parade laps, pit stalls and pit approaches
PitFrames ==
    [session_time : SessionTimes, lap_progress : {5, 95}, fuel_level : {1, 2},
     session_state : {"ParadeLaps", "Racing"},
     surface : {"OnTrack", "InPitStall", "ApproachingPits"}, is_on_track : {TRUE}]

\* the planner's answers at a pit approach: None, or a strategy with its
\* total fuel and green rate
PitStrats(totals, greens) ==
    {[some |-> FALSE, total_fuel |-> 0, green_fuel |-> 0]}
        \cup [some : {TRUE}, total_fuel : totals, green_fuel : greens]

\* what the broadcast block can read in such a session
SessionPits ==
    [settings : {[SettingsDefault EXCEPT !.take_tires = TRUE]},
     tank_size : {3}, strat : PitStrats({1, 4}, {1}), fuel_level : {1, 2}]

\* a session is held, attached with a working store
InitPit ==
    /\ PlannerIdle
    /\ RatesIdle
    /\ SpanIdle
    /\ RaceIdle
    /\ hist_laps = <<>>
    /\ db = DbNew
    /\ sys = "live"
    /\ calls = <<>>
    /\ state = "Some"
    /\ def_green \in BOOLEAN
    /\ \E first \in PitFrames :
          /\ last = KeepLast(first)
          /\ lap_start = KeepLapStart(first)
          /\ est = [EstimationDefault EXCEPT !.connected = TRUE]
    /\ ev = {}
    /\ dtick = 0
    /\ sent = <<>>
    /\ pit = PitNone

\* Estimator::update on the held session whose data is fresh
UpdatePit ==
    /\ sys = "live"
    /\ state = "Some"
    /\ RunUpdateOn(PitFrames, SessionPits, Held, db, {})
    /\ UNCHANGED <<calls, plannerVars, rateVars, spanVars, raceVars>>

NextPit == UpdatePit

SpecPit == InitPit /\ [][NextPit]_vars

\* ------------------------------------- the broadcast block on its own
\* the most fuel a plan or a tank holds, in parts of a litre
MaxPitFuel == 5

\* what the broadcast block can read: any settings, tank, answer and fuel level
BlockPits ==
    [settings : [clear_tires : BOOLEAN, take_tires : BOOLEAN,
                 extra_fuel : {0, 1, 3}, extra_laps : {0, 1, 2}],
     tank_size : {MaxPitFuel - 1, MaxPitFuel},
     strat : PitStrats(0 .. MaxPitFuel, {1, 2}),
     fuel_level : 0 .. 3]

\* update has seen the car reach the pit approach and is about to broadcast
InitBlock ==
    /\ PlannerIdle
    /\ RatesIdle
    /\ SpanIdle
    /\ RaceIdle
    /\ hist_laps = <<>>
    /\ db = DbNone
    /\ sys = "live"
    /\ calls = <<>>
    /\ state = "Some"
    /\ est = [EstimationDefault EXCEPT !.connected = TRUE]
    /\ last = FrameZero
    /\ lap_start = FrameZero
    /\ def_green = FALSE
    /\ ev = {}
    /\ dtick = 0
    /\ sent = <<>>
    /\ pit \in BlockPits

\* the broadcast block of update
BroadcastBlock ==
    /\ ev = {}
    /\ ev' = {"pit_cmd"}
    /\ sent' = PitCommands(pit)
    /\ UNCHANGED <<state, est, last, lap_start, def_green, dtick, pit, sessionVars, plannerVars, rateVars, spanVars, raceVars>>

NextBlock == BroadcastBlock

SpecBlock == InitBlock /\ [][NextBlock]_vars

\* --------------------------------------------- History::strat on its own
\* the laps a History can hold: green laps of two kinds, yellow laps of two
\* kinds (one of them pitted as well), and a pitted lap under green
RateLaps ==
    {[fuel_used |-> 1, time |-> 3, condition |-> {}],
     [fuel_used |-> 2, time |-> 4, condition |-> {}],
     [fuel_used |-> 1, time |-> 7, condition |-> {"YELLOW"}],
     [fuel_used |-> 2, time |-> 9, condition |-> {"YELLOW", "PITTED"}],
     [fuel_used |-> 1, time |-> 5, condition |-> {"PITTED"}]}

\* how many laps are held
RateLapCounts == 0 .. 6

\* the historical rates read at construction: none, both, or green only
RateDefaults ==
    {<<RateNone, RateNone>>,
     <<RateSome(Q(3, 1), Q(6, 1)), RateSome(Q(5, 1), Q(20, 1))>>,
     <<RateSome(Q(3, 1), Q(6, 1)), RateNone>>}

\* a History with laps recorded, about to be asked for a strategy
InitRates ==
    /\ PlannerIdle
    /\ SessionIdle
    /\ \E n \in RateLapCounts : \E l \in [1 .. n -> RateLaps] : \E d \in RateDefaults :
          history = [laps |-> l, def_green |-> d[1], def_yellow |-> d[2]]
    /\ handed = HandedNone
    /\ SpanIdle
    /\ RaceIdle

\* History::strat
HistoryStrat ==
    /\ handed.result = "pending"
    /\ handed' = HistoryStratRequest(history)
    /\ UNCHANGED <<history, plannerVars, sessionVars, estimatorVars, spanVars, raceVars>>

NextRates == HistoryStrat

SpecRates == InitRates /\ [][NextRates]_vars

\* ------------------------------------- a TimeSpan written and read back
\* the TimeSpans written: up to a hundred hours, whole seconds and not
TimeSpans ==
    {[secs |-> h * 3600 + mi * 60 + s, nanos |-> n] :
        h \in {0, 1, 9, 10, 99, 100}, mi \in {0, 1, 59}, s \in {0, 5, 59},
        n \in {0, 500000000}}

InitSpan ==
    /\ PlannerIdle
    /\ SessionIdle
    /\ RatesIdle
    /\ RaceIdle
    /\ span \in TimeSpans
    /\ text = <<>>
    /\ parsed = ParsedNone

\* format!("{}", span)
Format ==
    /\ text = <<>>
    /\ text' = Display(span)
    /\ UNCHANGED <<span, parsed, plannerVars, sessionVars, estimatorVars, rateVars, raceVars>>

\* TimeSpan::from_str(&text)
Parse ==
    /\ text # <<>> /\ parsed = ParsedNone
    /\ parsed' = from_str(text)
    /\ UNCHANGED <<span, text, plannerVars, sessionVars, estimatorVars, rateVars, raceVars>>

NextSpan == Format \/ Parse

SpecSpan == InitSpan /\ [][NextSpan]_vars

\* ------------------------------------------- IRacingTelemetryRow::ends
\* the length of the practice a session without limits is taken to be
ThirtyMinutes == 1800

\* the totals of the session are read in ParadeLaps only
UsesTotalsInParadeOnly(session_state) == session_state = "ParadeLaps"

\* the arm of the match that reads the totals of the session
UsesTotals(session_state) == session_state \in {"Warmup", "ParadeLaps"}

\* ends(), times in whole seconds
ends(f) ==
    LET tm == IF UsesTotals(f.session_state)
              THEN f.session_time_total ELSE f.session_time_remain
        laps == IF UsesTotals(f.session_state)
                THEN f.session_laps_total ELSE f.session_laps_remain
    IN  IF tm = IRSDK_UNLIMITED_TIME
        THEN IF laps = IRSDK_UNLIMITED_LAPS
             THEN [kind |-> "Time", l |-> 0, d |-> Max(ThirtyMinutes - f.session_time, 0)]
             ELSE [kind |-> "Laps", l |-> laps, d |-> 0]
        ELSE IF laps = IRSDK_UNLIMITED_LAPS
             THEN [kind |-> "Time", l |-> 0, d |-> Max(tm, 0)]
             ELSE [kind |-> "LapsOrTime", l |-> laps, d |-> Max(tm, 0)]

\* rows as ends() reads them: before, at and after thirty minutes, with the
\* time left unlimited, counting or run out (-1), and laps limited or not
EndsRows ==
    [session_state : {"Warmup", "ParadeLaps", "Racing", "Checkered"},
     session_time : {0, ThirtyMinutes - 1, ThirtyMinutes + 1},
     session_time_remain : {-1, 5, IRSDK_UNLIMITED_TIME},
     session_laps_remain : {3, IRSDK_UNLIMITED_LAPS},
     session_time_total : {7, IRSDK_UNLIMITED_TIME},
     session_laps_total : {4, IRSDK_UNLIMITED_LAPS}]

InitEnds ==
    /\ PlannerIdle
    /\ SessionIdle
    /\ RatesIdle
    /\ SpanIdle
    /\ RaceIdle

\* a row is read and ends() called on it
Ends ==
    /\ \E f \in EndsRows :
          /\ row' = f
          /\ ended' = ends(f)
    /\ UNCHANGED <<race, lap_rows, condition, plannerVars, sessionVars, estimatorVars, rateVars, spanVars>>

NextEnds == Ends

SpecEnds == InitEnds /\ [][NextEnds]_vars

\* ------------------------------------ the per-tick outputs of update
\* the totals of a strategy that strat_to_result writes to Estimation.race
RaceStrats == [total_fuel : {2}, total_laps : {2}, total_time : {2}]

\* Estimation.race and the two flags after update: strat_to_result where the
\* update wrote a strategy (t.written, totals st), then lines 334-370
RaceOutputs(r, t, this, st) ==
    LET r1 == IF t.written
              THEN [r EXCEPT !.laps = st.total_laps, !.fuel = st.total_fuel,
                             !.time = st.total_time]
              ELSE r
        r2 == IF this.is_on_track
              THEN [r1 EXCEPT !.fuel = Max(r1.fuel - t.burned, 0)] ELSE r1
        e == ends(this)
    IN  IF e.kind = "Laps"
        THEN [r2 EXCEPT !.laps = e.l, !.time = r2.time - Min(r2.time, t.dtick),
                        !.laps_estimated = FALSE, !.tm_estimated = TRUE]
        ELSE IF e.kind = "Time"
        THEN [r2 EXCEPT !.time = e.d,
                        !.laps_estimated = TRUE, !.tm_estimated = FALSE]
        ELSE [r2 EXCEPT !.laps = e.l, !.time = e.d,
                        !.laps_estimated = FALSE, !.tm_estimated = FALSE]

\* what the server reports of the end of the race: nothing limited, the
\* laps, the time, or both
RaceReports ==
    [session_time_remain : {5, IRSDK_UNLIMITED_TIME},
     session_laps_remain : {3, IRSDK_UNLIMITED_LAPS}]

\* rows read in a race, in the car or out of it
RaceFrames ==
    {[session_time |-> b.session_time, lap_progress |-> b.lap_progress,
      fuel_level |-> b.fuel_level, session_state |-> "Racing", surface |-> "OnTrack",
      is_on_track |-> b.is_on_track,
      session_time_remain |-> e.session_time_remain,
      session_laps_remain |-> e.session_laps_remain,
      session_time_total |-> e.session_time_remain,
      session_laps_total |-> e.session_laps_remain] :
        b \in [session_time : SessionTimes, lap_progress : {5, 95}, fuel_level : {1, 2},
               is_on_track : BOOLEAN],
        e \in RaceReports}

\* a session is held, attached without a store; the caller's Estimation is
\* the default but for connected
InitRace ==
    /\ PlannerIdle
    /\ RatesIdle
    /\ SpanIdle
    /\ hist_laps = <<>>
    /\ db = DbNone
    /\ sys = "live"
    /\ calls = <<>>
    /\ state = "Some"
    /\ def_green \in BOOLEAN
    /\ \E first \in RaceFrames :
          /\ last = KeepLast(first)
          /\ lap_start = KeepLapStart(first)
          /\ est = [EstimationDefault EXCEPT !.connected = TRUE]
    /\ ev = {}
    /\ dtick = 0
    /\ sent = <<>>
    /\ pit = PitNone
    /\ RaceIdle

\* Estimator::update on the held session whose data is fresh; the server
\* reports the limits it reported before
UpdateRace ==
    /\ sys = "live"
    /\ state = "Some"
    /\ \E this \in RaceFrames :
          /\ this.session_time_remain = last.session_time_remain
          /\ this.session_laps_remain = last.session_laps_remain
          /\ RunUpdateRow(this, TickPits, Held, db, {})
          /\ row' = this
          /\ ended' = ends(this)
          /\ \E t \in {Tick(Held, this)}, st \in RaceStrats :
                race' = IF t.underflow THEN race ELSE RaceOutputs(race, t, this, st)
    /\ UNCHANGED <<lap_rows, condition, calls, plannerVars, rateVars, spanVars>>

NextRace == UpdateRace

SpecRace == InitRace /\ [][NextRace]_vars

\* -------------------------------------- IRacingTelemetryRow::lap_state
\* ONE_TO_GREEN set whatever else the LapState holds
OneToGreenAlways(s) == TRUE

\* s.intersects(LapState::YELLOW)
OneToGreenUnder(s) == "YELLOW" \in s

\* lap_state(), a LapState being the set of its flags
lap_state(f) ==
    LET s1 == IF f.session_flags \cap {"YELLOW", "YELLOW_WAVING", "CAUTION_WAVING", "CAUTION"} # {}
              THEN {"YELLOW"} ELSE {}
        s2 == IF f.surface \in {"ApproachingPits", "InPitStall"}
              THEN s1 \cup {"PITTED"} ELSE s1
        s3 == IF f.session_state \in {"ParadeLaps", "Warmup"}
              THEN s2 \cup {"PACE_LAP"} ELSE s2
    IN  IF "ONE_TO_GREEN" \in f.session_flags /\ OneToGreenUnder(s3)
        THEN s3 \cup {"ONE_TO_GREEN"} ELSE s3

\* new_lap.condition: this.lap_state() | self.lap_start.lap_state()
Condition(this, start) == lap_state(this) \cup lap_state(start)

\* rows as lap_state() reads them
FlagRows ==
    [session_flags : SUBSET {"GREEN", "YELLOW", "CAUTION_WAVING", "ONE_TO_GREEN"},
     surface : {"OnTrack", "ApproachingPits", "InPitStall"},
     session_state : {"Warmup", "ParadeLaps", "Racing"}]

InitCondition ==
    /\ PlannerIdle
    /\ SessionIdle
    /\ RatesIdle
    /\ SpanIdle
    /\ RaceIdle

\* the lap-boundary block makes a lap out of the row at hand and lap_start
NewLap ==
    /\ lap_rows = <<>>
    /\ \E start \in FlagRows, this \in FlagRows :
          /\ lap_rows' = <<[row |-> start, state |-> lap_state(start)],
                           [row |-> this, state |-> lap_state(this)]>>
          /\ condition' = Condition(this, start)
    /\ UNCHANGED <<race, row, ended, plannerVars, sessionVars, estimatorVars, rateVars, spanVars>>

NextCondition == NewLap

SpecCondition == InitCondition /\ [][NextCondition]_vars

\* ------------------------------------------------------------------ claims

\* C1: whenever compute returns Some(s), the number of pit stops is one less
\* than the number of stints.
C1_StopsOneLessThanStints ==
    Returned => Len(strategy.stops) = Len(strategy.stints) - 1

C1_Witness ==
    /\ Returned /\ strategy.stints[1].laps >= 1
    /\ Len(strategy.stints) >= 3 /\ Len(strategy.stops) >= 2

\* C2: for ends = Laps(L) with L >= 1 a strategy is returned and its stint lap
\* counts add up to exactly L, yellow and green laps counted alike.
C2_LapsRaceTotalIsL ==
    (pc = "done" /\ req.ends.kind = "Laps" /\ req.ends.l >= 1)
        => (result = "Some" /\ total_laps(strategy) = req.ends.l)

C2_Witness ==
    /\ Returned /\ req.ends.kind = "Laps" /\ req.ends.l >= 4
    /\ req.yellow_togo >= 1 /\ req.yellow.fuel # req.green.fuel
    /\ Len(strategy.stints) >= 2 /\ strategy.stints[1].laps >= 1

\* summed lap time of the first k future laps: yellow_togo yellow laps, then green
TimeOfFirstLaps(r, k) ==
    Min(k, r.yellow_togo) * r.yellow.time + Max(0, k - r.yellow_togo) * r.green.time

\* C3: for ends = Time(T) the k-th future lap is planned if and only if the
\* summed time of the k-1 laps before it is <= T (the lap during which the
\* time runs out is counted, the first lap starting after T is not).
C3_TimedRaceLapPlannedIffStartsByT ==
    (pc = "done" /\ req.ends.kind = "Time")
        => \A k \in 1..(req.ends.d + 2) :
              (k <= PlannedLaps) <=> (TimeOfFirstLaps(req, k - 1) <= req.ends.d)

C3_Witness ==
    /\ Returned /\ req.ends.kind = "Time"
    /\ req.yellow_togo >= 1 /\ req.yellow.time # req.green.time
    /\ PlannedLaps > req.yellow_togo
    /\ TimeOfFirstLaps(req, PlannedLaps - 1) = req.ends.d
    /\ TimeOfFirstLaps(req, PlannedLaps) > req.ends.d

\* C4: every Pitstop of every returned strategy has open <= close.
C4_OpenLeClose ==
    Returned => \A i \in 1..Len(strategy.stops) :
                   strategy.stops[i].open <= strategy.stops[i].close

\* the lap at which run i (0-based) starts and ends when every stop is taken
\* at the lap its window opens
RunStart(s, i) == IF i = 0 THEN 0 ELSE s.stops[i].open

RunEnd(s, i) == IF i = Len(s.stops) THEN total_laps(s) ELSE s.stops[i + 1].open

\* n laps at `burn` per lap can be driven from `fuel` with at least
\* burn + min_fuel in the tank before each of them
CanDrive(fuel, n, burn, min_fuel) == n <= 0 \/ fuel - (n - 1) * burn >= burn + min_fuel

\* C5: in an all-green plan, stopping at the lap each window opens and filling
\* the tank there, every run (start to first stop, stop to stop, last stop to
\* finish) can be driven at the green rate under the planner's fuel rule.
C5_StoppingAtOpenIsDrivable ==
    (Returned /\ req.yellow_togo = 0)
        => \A i \in 0..Len(strategy.stops) :
              CanDrive(IF i = 0 THEN req.fuel_left ELSE req.tank_size,
                       RunEnd(strategy, i) - RunStart(strategy, i),
                       req.green.fuel, req.min_fuel)

\* most laps a tank holding `fuel` lasts when num/den is burnt per lap
LapsOnFuel(fuel, num, den) == (fuel * den) \div num

\* C6: whenever fuel_to_save > 0, a driver burning fuel_target() per lap, who
\* starts with fuel_left and fills the tank at each stop, completes
\* total_laps() with len(stops) - 1 stops.
C6_FuelTargetEliminatesLastStop ==
    (Returned /\ strategy.fuel_to_save > 0)
        => LET t == fuel_target(strategy)
           IN  \/ t[1] <= 0
               \/ LapsOnFuel(req.fuel_left, t[1], t[2])
                    + (Len(strategy.stops) - 1) * LapsOnFuel(req.tank_size, t[1], t[2])
                  >= total_laps(strategy)

\* C7 as stated: fuel_to_save is 0 or strictly less than tank_size * max_fuel_save.
C7_SaveBelowTankShare ==
    Returned => \/ strategy.fuel_to_save = 0
                \/ strategy.fuel_to_save * req.save_den < req.tank_size * req.save_num

\* C7 as amended: fuel_to_save is 0 or strictly less than
\* total_fuel() * max_fuel_save, the share of the fuel of the whole plan.
C7_SaveBelowTotalShare ==
    Returned => \/ strategy.fuel_to_save = 0
                \/ strategy.fuel_to_save * req.save_den < total_fuel(strategy) * req.save_num

C7_Witness ==
    /\ Returned /\ strategy.fuel_to_save > 0
    /\ strategy.fuel_to_save * req.save_den >= req.tank_size * req.save_num

\* C8: pit windows are non-decreasing along the stop list, open and close both.
C8_WindowsMonotone ==
    Returned => \A i \in 1..(Len(strategy.stops) - 1) :
                   /\ strategy.stops[i].open <= strategy.stops[i + 1].open
                   /\ strategy.stops[i].close <= strategy.stops[i + 1].close

C8_Witness ==
    /\ Returned /\ Len(strategy.stops) >= 2
    /\ strategy.stops[1].open < strategy.stops[1].close
    /\ strategy.stops[1].open < strategy.stops[2].open

\* C9: every window is at most full_stint_len - stints.last.laps wide, with
\* full_stint_len = floor(tank_size / green.fuel); when the last stint has
\* full_stint_len laps every window has open = close.
C9_WindowWidthBound ==
    Returned =>
        /\ \A i \in 1..Len(strategy.stops) :
              strategy.stops[i].close - strategy.stops[i].open
                  <= (req.tank_size \div req.green.fuel) - LastStint.laps
        /\ LastStint.laps = req.tank_size \div req.green.fuel
              => \A i \in 1..Len(strategy.stops) :
                    strategy.stops[i].open = strategy.stops[i].close

C9_Witness ==
    /\ Returned /\ Len(strategy.stops) >= 2
    /\ (req.tank_size \div req.green.fuel) - LastStint.laps > 0
    /\ strategy.stops[2].close - strategy.stops[2].open
          = (req.tank_size \div req.green.fuel) - LastStint.laps

\* C10 as stated: every stint but the first has fuel <= tank_size.
C10_LaterStintsFitTank ==
    Returned => \A i \in 2..Len(strategy.stints) :
                   strategy.stints[i].fuel <= req.tank_size

\* C10 as amended: when tank_size >= max(green.fuel, yellow.fuel), every stint
\* but the first has fuel <= tank_size.
C10_LaterStintsFitTankOfOneLap ==
    (Returned /\ req.tank_size >= Max(req.green.fuel, req.yellow.fuel))
        => \A i \in 2..Len(strategy.stints) :
              strategy.stints[i].fuel <= req.tank_size

C10_Witness ==
    /\ Returned /\ req.tank_size >= Max(req.green.fuel, req.yellow.fuel)
    /\ Len(strategy.stints) >= 3 /\ strategy.stints[1].laps >= 1
    /\ strategy.stints[2].laps >= 2
    /\ strategy.stints[2].fuel = req.tank_size

\* C11: compute returns None exactly when ends is Laps(L) or LapsOrTime(L, _)
\* with L <= 0; every Time(T) request and every request with L >= 1 returns
\* Some, and a returned strategy holds at least one lap.
C11_NoneIffNoLapToRun ==
    pc = "done" =>
        /\ result = "None" <=> (req.ends.kind \in {"Laps", "LapsOrTime"} /\ req.ends.l <= 0)
        /\ result = "Some" => total_laps(strategy) >= 1 /\ Len(strategy.stints) >= 1

C11_Witness ==
    /\ pc = "done" /\ result = "None"
    /\ req.ends.kind = "LapsOrTime" /\ req.ends.l < 0 /\ req.ends.d > 0
    /\ req.fuel_left > 0

\* C14: for ends = LapsOrTime(L, T) the planned laps are the smaller of the
\* laps planned for Laps(L) and for Time(T) on the same request.
C14_LapsOrTimeIsMinOfBoth ==
    (pc = "done" /\ req.ends.kind = "LapsOrTime")
        => PlannedLaps = Min(SumLaps(stints(WithEnds(req, "Laps", req.ends.l, 0))),
                             SumLaps(stints(WithEnds(req, "Time", 0, req.ends.d))))

C14_Witness ==
    /\ Returned /\ req.ends.kind = "LapsOrTime"
    /\ req.yellow_togo >= 1 /\ req.yellow.time # req.green.time
    /\ PlannedLaps >= 3 /\ PlannedLaps < req.ends.l
    /\ PlannedLaps = SumLaps(stints(WithEnds(req, "Time", 0, req.ends.d)))

\* lap counts of the stints of the plan
StintLaps == [i \in 1..Len(strategy.stints) |-> strategy.stints[i].laps]

\* C13: the six planner scenarios A-F give exactly the listed stint lap
\* counts, pit windows and fuel_to_save (0.1 litre units; F also its
\* fuel_target of 48/49 litre per lap).
C13_ScenariosAsListed ==
    pc = "done" =>
        /\ req = ScenarioA =>
              result = "Some" /\ StintLaps = <<5>> /\ strategy.stops = <<>>
              /\ strategy.fuel_to_save = 0
        /\ req = ScenarioB =>
              result = "Some" /\ StintLaps = <<19, 15>>
              /\ strategy.stops = <<PitstopNew(14, 19)>> /\ strategy.fuel_to_save = 0
        /\ req = ScenarioC =>
              result = "Some" /\ StintLaps = <<6, 3>>
              /\ strategy.stops = <<PitstopNew(0, 6)>> /\ strategy.fuel_to_save = 0
        /\ req = ScenarioD =>
              result = "Some" /\ StintLaps = <<18, 20, 11>>
              /\ strategy.stops = <<PitstopNew(9, 18), PitstopNew(29, 38)>>
              /\ strategy.fuel_to_save = 0
        /\ req = ScenarioE =>
              result = "Some" /\ StintLaps = <<3, 20, 6>>
              /\ strategy.stops = <<PitstopNew(0, 3), PitstopNew(9, 23)>>
              /\ strategy.fuel_to_save = 0
        /\ req = ScenarioF =>
              result = "Some" /\ StintLaps = <<9, 20, 20, 1>>
              /\ strategy.stops = <<PitstopNew(0, 9), PitstopNew(10, 29), PitstopNew(30, 49)>>
              /\ strategy.fuel_to_save = 10
              /\ fuel_target(strategy) = <<480, 49>>

C13_Witness ==
    /\ Returned /\ req = ScenarioF
    /\ Len(strategy.stints) = 4 /\ Len(strategy.stops) = 3 /\ strategy.fuel_to_save > 0

\* C12: the planner is total: for every request with fuel_left >= 0,
\* green.fuel > 0, lap times >= 0, yellow_togo >= 0 and any ends, compute
\* comes to an end and returns Some or None (its loop never runs until the
\* lap counter is exhausted).
C12_ComputeReturns == pc # "aborted"

\* C15: with a working store, after any sequence of recorded laps and
\* session resets followed by the drop of the session, the store holds every
\* recorded lap exactly once, in order; no save_laps call panics or skips a lap.
C15_StoreHoldsEveryLapOnce ==
    /\ sys # "panic"
    /\ sys = "dropped" => db.rows = hist_laps

\* C16: save_laps called twice in a row on the same lap list writes each lap
\* exactly once: after the second call the store holds the whole list, and
\* the second call comes back.
C16_SaveTwiceWritesOnce ==
    calls = <<"save_laps", "save_laps">> => (sys # "panic" /\ db.rows = hist_laps)

\* C17: a store failure (open, insert session, read averages, write laps at
\* a reset) never prevents live strategy computation: Estimator::update still
\* returns normally, it does not panic on the failure.
C17_StoreFailureNeverStopsUpdate ==
    ~(sys = "panic" /\ ev \cap {"insert_session_failed", "save_laps_failed"} # {})

\* C18: after every Estimator::update that returns, connected is true iff the
\* Estimator holds a SessionProgress, and when none is held the Estimation
\* equals Estimation::default.
C18_ConnectedIffSessionHeld ==
    sys = "live" =>
        /\ est.connected <=> state = "Some"
        /\ state = "None" => est = EstimationDefault

C18_Witness ==
    /\ sys = "live" /\ state = "Some" /\ est.connected
    /\ est.planned /\ est.fuel_last_lap > 0
    /\ "attached" \notin ev /\ db.id >= 2

\* C19: when the held session reports SessionExpired, the same call drops it
\* (state None, Estimation default); every call made while no session is held
\* polls the source, and attaches a session that the source offers and that
\* can be constructed, which is then held and connected unless it expires in
\* that very call.
C19_ExpiredDropsAndPollsAgain ==
    [][sys' = "live" =>
          /\ "expired" \in ev' => (state' = "None" /\ est' = EstimationDefault)
          /\ state = "None" => "poll" \in ev'
          /\ (state = "None" /\ "offered" \in ev' /\ "new_failed" \notin ev')
                => "attached" \in ev'
          /\ ("attached" \in ev' /\ "expired" \notin ev')
                => (state' = "Some" /\ est'.connected)]_vars

C19_Witness ==
    /\ sys = "live" /\ state = "None" /\ est = EstimationDefault
    /\ "expired" \in ev /\ "attached" \notin ev
    /\ db.id >= 2 /\ db.rows # <<>>

\* the row of the latest call is in a session state in which laps count
LapsCount == last.session_state \notin {"Checkered", "CoolDown"}

\* C20 as stated: on a lap-boundary tick the lap is recorded and the planner
\* asked only if session_state is neither Checkered nor CoolDown and
\* fuel_used > 0; otherwise neither happens.
C20_RecordAndAskOnlyOnFuelUsed ==
    "boundary" \in ev =>
        /\ "add_lap" \in ev <=> (LapsCount /\ est.fuel_last_lap > 0)
        /\ "strat_lap" \in ev <=> (LapsCount /\ est.fuel_last_lap > 0)

\* C20 as amended: on a lap-boundary tick the lap is recorded iff
\* session_state is neither Checkered nor CoolDown and fuel_used > 0; the
\* planner is asked iff session_state is neither Checkered nor CoolDown,
\* whatever fuel_used is.
C20_RecordOnFuelUsedAskAnyway ==
    "boundary" \in ev =>
        /\ "add_lap" \in ev <=> (LapsCount /\ est.fuel_last_lap > 0)
        /\ "strat_lap" \in ev <=> LapsCount

C20_Witness ==
    /\ "boundary" \in ev /\ last.session_state = "Racing"
    /\ est.fuel_last_lap <= 0
    /\ "strat_lap" \in ev /\ "add_lap" \notin ev /\ est.planned

\* C21: on a call of update whose row has a session_time below that of the
\* row kept as last, the laps are saved and last and lap_start become the row
\* before anything is detected: the call records no lap boundary and no lap,
\* writes no strategy at a pit exit or parade start, sends no pit command,
\* and takes a time delta of zero off race.time; the delta of no call is
\* negative.
C21_ResetComesBeforeDetection ==
    [][/\ dtick' >= 0
       /\ (sys' = "live" /\ last'.session_time < last.session_time)
            => /\ db' = HistorySaveLaps(db, hist_laps)
               /\ lap_start'.fuel_level = last'.fuel_level
               /\ hist_laps' = hist_laps
               /\ ev' \cap {"boundary", "add_lap", "strat_lap", "strat_fixup", "pit_cmd"} = {}
               /\ est'.plan = est.plan
               /\ sent' = <<>>
               /\ dtick' = 0]_vars

C21_Witness ==
    /\ sys = "live" /\ "reset" \in ev /\ Len(db.rows) >= 1
    /\ last.lap_progress = 5 /\ last.surface = "ApproachingPits"
    /\ last.session_state = "ParadeLaps" /\ est.planned

\* C22: pit-service commands are sent only by a call of update whose row is
\* approaching the pits while the row before it was not: a call that finds
\* the car already approaching sends none, so a run of rows spent
\* approaching the pits sees them sent at most once.
C22_PitCommandsOnApproachEdgeOnly ==
    [][sent' # <<>> => (last'.surface = "ApproachingPits" /\ last.surface # "ApproachingPits")]_vars

C22_Witness ==
    /\ Len(sent) = 5 /\ sent[5].cmd = "Fuel" /\ last.surface = "ApproachingPits"
    /\ "pit_cmd" \in ev /\ "reset" \notin ev

\* the fuel commands among the commands sent
FuelCommandsSent == {i \in 1 .. Len(sent) : sent[i].cmd \in {"Fuel", "ClearFuel"}}

\* the least number of whole litres that is no less than n parts
WholeLitres(n) ==
    CHOOSE k \in -(MaxPitFuel + 6) .. (MaxPitFuel + 6) :
        k * FuelParts >= n /\ (k - 1) * FuelParts < n

\* total_planned_fuel - current_fuel + max(extra_fuel, green.fuel * extra_laps)
FuelToAdd ==
    WholeLitres(pit.strat.total_fuel - pit.fuel_level
                  + Max(pit.settings.extra_fuel, pit.strat.green_fuel * pit.settings.extra_laps))

\* C23: the broadcast block sends exactly one fuel command: Fuel of the tank
\* size rounded up when there is no strategy; else, with add the planned
\* fuel less the fuel in the car plus the larger extra, rounded up, Fuel(add)
\* when add > 0 and ClearFuel when add <= 0.
C23_OneFuelCommand ==
    "pit_cmd" \in ev =>
        /\ Cardinality(FuelCommandsSent) = 1
        /\ \A i \in FuelCommandsSent :
              sent[i] = IF ~pit.strat.some THEN [cmd |-> "Fuel", amount |-> WholeLitres(pit.tank_size)]
                        ELSE IF FuelToAdd > 0 THEN [cmd |-> "Fuel", amount |-> FuelToAdd]
                        ELSE [cmd |-> "ClearFuel", amount |-> 0]

C23_Witness ==
    /\ "pit_cmd" \in ev /\ pit.strat.some /\ FuelToAdd = 0
    /\ pit.strat.total_fuel > 0 /\ pit.settings.extra_laps > 0
    /\ sent = <<[cmd |-> "ClearTires", amount |-> 0], [cmd |-> "ClearFuel", amount |-> 0]>>

\* the row of a call goes back in session time
SessionResets == last'.session_time < last.session_time

\* the row of a call crosses the line, leaves the pit stall, or starts the
\* parade laps
CrossesLine == last'.lap_progress < 10 /\ last.lap_progress > 90
LeavesPitStall == last.surface = "InPitStall" /\ last'.surface # "InPitStall"
StartsParade == last'.session_state = "ParadeLaps" /\ last.session_state # "ParadeLaps"

\* C24: a call of update with no lap boundary, no pit exit and no parade-lap
\* start leaves the strategy written to the Estimation (stops, next_stop,
\* save, save_target, green) as it was, also when the call asks the planner
\* for the pit commands.
C24_StrategyWrittenOnlyAtLapPitExitParade ==
    [][(SessionResets \/ ~(CrossesLine \/ LeavesPitStall \/ StartsParade))
          => (est'.plan = est.plan /\ est'.planned = est.planned)]_vars

C24_Witness ==
    /\ sent # <<>> /\ pit.strat.some /\ est.planned
    /\ est.plan.fuel_left # last.fuel_level
    /\ ev \cap {"reset", "boundary", "strat_fixup"} = {}

\* the fuel and the time of the laps of history whose index is in S
RECURSIVE FuelOfLaps(_)
FuelOfLaps(S) ==
    IF S = {} THEN 0
    ELSE LET i == CHOOSE j \in S : TRUE
         IN  history.laps[i].fuel_used + FuelOfLaps(S \ {i})

RECURSIVE TimeOfLaps(_)
TimeOfLaps(S) ==
    IF S = {} THEN 0
    ELSE LET i == CHOOSE j \in S : TRUE
         IN  history.laps[i].time + TimeOfLaps(S \ {i})

\* the rate r is the average of the laps in S
IsAverageOf(r, S) ==
    /\ r.some
    /\ r.fuel.num * Cardinality(S) = FuelOfLaps(S) * r.fuel.den
    /\ r.time.num * Cardinality(S) = TimeOfLaps(S) * r.time.den

\* the laps with an empty condition, and the five latest of them
GreenLaps == {i \in 1 .. Len(history.laps) : history.laps[i].condition = {}}

LatestGreenLaps == {i \in GreenLaps : Cardinality({j \in GreenLaps : j > i}) < 5}

UnderYellow(i) == "YELLOW" \in history.laps[i].condition

\* the yellow laps that follow a yellow lap
YellowAfterYellow ==
    {i \in 2 .. Len(history.laps) : UnderYellow(i) /\ UnderYellow(i - 1)}

\* C27: the yellow rate is the average of exactly the laps under yellow whose
\* preceding recorded lap was under yellow too, so the first lap of every run
\* of yellow laps is left out; when there is no such lap it is the
\* historical def_yellow.
C27_YellowRateSkipsFirstOfEveryRun ==
    handed.result = "request" =>
        IF YellowAfterYellow = {}
        THEN handed.recent_yellow = history.def_yellow
        ELSE IsAverageOf(handed.recent_yellow, YellowAfterYellow)

C27_Witness ==
    /\ handed.result = "request" /\ history.def_yellow.some
    /\ Cardinality(YellowAfterYellow) = 2
    /\ \E i, j \in 2 .. Len(history.laps) :
          /\ i \in YellowAfterYellow /\ i < j
          /\ UnderYellow(j) /\ ~UnderYellow(j - 1) /\ j + 1 \in YellowAfterYellow
    /\ handed.recent_yellow.fuel = Q(3, 2)

\* the number of laps under yellow at the end of history
TrailingYellow ==
    Cardinality({i \in 1 .. Len(history.laps) :
                    \A j \in i .. Len(history.laps) : UnderYellow(j)})

\* C30: the request handed to the planner has yellow_togo = max(0, 3 - n)
\* for n > 0 trailing laps under yellow, and 0 when the latest lap is not
\* under yellow (or no lap is recorded); it is always 0, 1 or 2.
C30_YellowTogoFromTrailingYellow ==
    handed.result = "request" =>
        /\ TrailingYellow > 0 =>
              handed.yellow_togo = (IF TrailingYellow >= 3 THEN 0 ELSE 3 - TrailingYellow)
        /\ TrailingYellow = 0 => handed.yellow_togo = 0
        /\ handed.yellow_togo \in {0, 1, 2}

C30_Witness ==
    /\ handed.result = "request" /\ TrailingYellow = 4 /\ handed.yellow_togo = 0
    /\ Len(history.laps) = 6 /\ history.laps[1].condition = {}

\* the text of span has been parsed
ReadBack == parsed # ParsedNone

\* C28, as stated: a TimeSpan shorter than 100 hours, written by Display and
\* parsed by from_str, comes back Ok and equal to itself.
C28_RoundTripIsEqual ==
    (ReadBack /\ span.secs < 100 * 3600)
        => (parsed.ok /\ parsed.secs = span.secs /\ parsed.nanos = span.nanos)

\* C28, amended: it comes back Ok as the TimeSpan cut down to whole seconds,
\* so equal to itself exactly when it is a whole number of seconds.
C28_RoundTripIsWholeSeconds ==
    (ReadBack /\ span.secs < 100 * 3600)
        => /\ parsed.ok /\ parsed.secs = span.secs /\ parsed.nanos = 0
           /\ [secs |-> parsed.secs, nanos |-> parsed.nanos] = span <=> span.nanos = 0

C28_Witness ==
    /\ ReadBack /\ parsed.ok /\ span.nanos > 0
    /\ span.secs = 99 * 3600 + 59 * 60 + 5
    /\ text = <<"9", "9", ":", "5", "9", ":", "0", "5">>

\* the laps of the first i stints of the strategy
LapsThrough(i) == SumLaps(SubSeq(strategy.stints, 1, i))

\* the fuel the plan leaves in the car at the end of stint i: the first stint
\* starts on fuel_left, every later one on a full tank
FuelAtEndOf(i) ==
    (IF i = 1 THEN req.fuel_left ELSE req.tank_size) - strategy.stints[i].fuel

\* C29: in every returned strategy the i-th stop closes after the laps of
\* the stints up to the i-th, and every stint but the last is as long as the
\* fuel allows: the fuel left at its end is less than the fuel of the next
\* lap plus min_fuel.
C29_CloseIsLapsDrivenAndStintsAreMaximal ==
    Returned =>
        \A i \in 1 .. Len(strategy.stints) - 1 :
            /\ strategy.stops[i].close = LapsThrough(i)
            /\ FuelAtEndOf(i) < LapAt(req, LapsThrough(i)).fuel + req.min_fuel

C29_Witness ==
    /\ Returned /\ Len(strategy.stints) >= 3 /\ strategy.stints[1].laps >= 1
    /\ req.yellow_togo >= 1 /\ req.min_fuel >= 1 /\ req.yellow.fuel # req.green.fuel
    /\ FuelAtEndOf(2) > 0

\* C36: whenever a strategy with no yellow lap has fuel_to_save > 0, the
\* per-lap target fuel_target() is at least (1 - max_fuel_save) * green.fuel
\* and less than green.fuel.
C36_TargetSavesAtMostMaxFuelSave ==
    (Returned /\ req.yellow_togo = 0 /\ strategy.fuel_to_save > 0)
        => LET t == fuel_target(strategy)
           IN  /\ t[1] * req.save_den >= (req.save_den - req.save_num) * req.green.fuel * t[2]
               /\ t[1] < req.green.fuel * t[2]

\* C38: every stint of a returned strategy has a lap, but for the first,
\* which has none exactly when fuel_left is less than the fuel of the first
\* lap plus min_fuel; the first stop then closes at lap 0.
C38_OnlyFirstStintMayBeEmpty ==
    Returned =>
        /\ \A i \in 2 .. Len(strategy.stints) : strategy.stints[i].laps >= 1
        /\ strategy.stints[1].laps = 0
              <=> req.fuel_left < (IF req.yellow_togo > 0 THEN req.yellow.fuel ELSE req.green.fuel)
                                    + req.min_fuel
        /\ strategy.stints[1].laps = 0
              => (Len(strategy.stops) >= 1 /\ strategy.stops[1].close = 0)

C38_Witness ==
    /\ Returned /\ strategy.stints[1].laps = 0 /\ req.fuel_left >= 1
    /\ req.yellow_togo >= 1 /\ req.fuel_left >= req.yellow.fuel
    /\ Len(strategy.stints) >= 3 /\ strategy.stops[1].close = 0

\* C39: with a tank of at least the larger lap fuel plus min_fuel, the fuel
\* planned to be in the car after the laps of every stint that has laps, and
\* so after every planned lap, is at least min_fuel.
C39_PlanKeepsMinFuel ==
    (Returned /\ req.tank_size >= req.min_fuel
                    + (IF req.green.fuel >= req.yellow.fuel THEN req.green.fuel ELSE req.yellow.fuel))
        => \A i \in 1 .. Len(strategy.stints) :
              strategy.stints[i].laps > 0 => FuelAtEndOf(i) >= req.min_fuel

C39_Witness ==
    /\ Returned /\ req.min_fuel >= 1 /\ Len(strategy.stints) >= 3
    /\ req.tank_size = req.min_fuel + req.green.fuel /\ req.yellow.fuel < req.green.fuel
    /\ req.yellow_togo >= 1 /\ strategy.stints[1].laps >= 1
    /\ FuelAtEndOf(Len(strategy.stints)) = req.min_fuel

C37_LapTimeNeverUnderflows ==
    ~(sys = "panic" /\ "lap_time_underflow" \in ev)

\* the time value and the lap value ends() goes by: the totals of the session
\* in Warmup and ParadeLaps, what remains of it in every other state
Reported(f) ==
    IF f.session_state \in {"Warmup", "ParadeLaps"}
    THEN [tm |-> f.session_time_total, laps |-> f.session_laps_total]
    ELSE [tm |-> f.session_time_remain, laps |-> f.session_laps_remain]

\* what C33 has ends() return for time tm and lap count laps, the limited
\* time being put through clamp
EndsAsStated(f, tm, laps, clamp(_)) ==
    IF tm = IRSDK_UNLIMITED_TIME /\ laps = IRSDK_UNLIMITED_LAPS
    THEN [kind |-> "Time", l |-> 0,
          d |-> IF ThirtyMinutes - f.session_time >= 0 THEN ThirtyMinutes - f.session_time ELSE 0]
    ELSE IF laps = IRSDK_UNLIMITED_LAPS THEN [kind |-> "Time", l |-> 0, d |-> clamp(tm)]
    ELSE IF tm = IRSDK_UNLIMITED_TIME THEN [kind |-> "Laps", l |-> laps, d |-> 0]
    ELSE [kind |-> "LapsOrTime", l |-> laps, d |-> clamp(tm)]

\* the time as it is
AsIs(tm) == tm

\* the time, or zero when it is negative
NotNegative(tm) == IF tm >= 0 THEN tm ELSE 0

\* C33 as stated: ends(frame) is Time(max(0, 1800 - session_time)) when both
\* values are the unlimited sentinels, Time(tm) when only laps is unlimited,
\* Laps(laps) when only time is unlimited and LapsOrTime(laps, tm) otherwise.
C33_EndsPassesTimeOn ==
    ended # EndedNone => ended = EndsAsStated(row, Reported(row).tm, Reported(row).laps, AsIs)

\* C33: ends(frame) is Time(max(0, 1800 - session_time)) when both values are
\* the unlimited sentinels, Time(max(0, tm)) when only laps is unlimited,
\* Laps(laps) when only time is unlimited and LapsOrTime(laps, max(0, tm))
\* otherwise, (tm, laps) being the session totals in Warmup and ParadeLaps and
\* the remaining values in every other session state.
C33_EndsClampsTime ==
    ended # EndedNone
        => ended = EndsAsStated(row, Reported(row).tm, Reported(row).laps, NotNegative)

C33_Witness ==
    /\ ended = [kind |-> "LapsOrTime", l |-> 4, d |-> 7]
    /\ row.session_state = "Warmup" /\ row.session_time_remain = -1
    /\ row.session_laps_remain = IRSDK_UNLIMITED_LAPS

\* the row shows no yellow or caution flag, is not approaching the pits or in
\* the pit stall, and is not in Warmup or ParadeLaps
RowIsGreen(f) ==
    /\ f.session_flags \cap {"YELLOW", "YELLOW_WAVING", "CAUTION", "CAUTION_WAVING"} = {}
    /\ f.surface \notin {"ApproachingPits", "InPitStall"}
    /\ f.session_state \notin {"Warmup", "ParadeLaps"}

\* C34: every LapState made by lap_state, and the condition of a lap (the
\* union of the states of its lap-end and lap-start rows), holds ONE_TO_GREEN
\* only if it holds YELLOW, and never TWO_TO_GREEN; the condition is empty
\* (green) only if neither row had a yellow or caution flag, was approaching
\* the pits or in the pit stall, or was in Warmup or ParadeLaps.
C34_OneToGreenOnlyUnderYellow ==
    lap_rows # <<>> =>
        /\ \A i \in 1 .. 2 :
              /\ "ONE_TO_GREEN" \in lap_rows[i].state => "YELLOW" \in lap_rows[i].state
              /\ "TWO_TO_GREEN" \notin lap_rows[i].state
        /\ condition = lap_rows[1].state \cup lap_rows[2].state
        /\ "ONE_TO_GREEN" \in condition => "YELLOW" \in condition
        /\ "TWO_TO_GREEN" \notin condition
        /\ condition = {} => (RowIsGreen(lap_rows[1].row) /\ RowIsGreen(lap_rows[2].row))

C34_Witness ==
    /\ lap_rows # <<>> /\ condition = {}
    /\ "ONE_TO_GREEN" \in lap_rows[1].row.session_flags
    /\ lap_rows[2].row.session_flags = {"GREEN"}

\* the fuel level the latest call compared the level of its row with:
\* self.last, which a session reset has set to the row itself
LastOfCall == IF "reset" \in ev' THEN row' ELSE last

\* the fall of the fuel level over the latest call, a rise counting as none
FallOfCall ==
    IF LastOfCall.fuel_level > row'.fuel_level
    THEN LastOfCall.fuel_level - row'.fuel_level ELSE 0

\* C31: between strategy updates Estimation.race.fuel never increases and is
\* never negative: a tick with is_on_track takes max(0, last.fuel_level -
\* frame.fuel_level) off it, saturating at 0 (a rising fuel level does not
\* raise it), and a tick without is_on_track leaves it as it is.
C31_RaceFuelOnlyFalls ==
    [][(sys' = "live" /\ "strat_written" \notin ev')
          => /\ race'.fuel >= 0
             /\ race'.fuel <= race.fuel
             /\ race'.fuel = IF ~row'.is_on_track THEN race.fuel
                              ELSE IF race.fuel >= FallOfCall THEN race.fuel - FallOfCall
                              ELSE 0]_vars

C31_Witness ==
    /\ sys = "live" /\ est.planned /\ "strat_written" \notin ev
    /\ race.fuel = 0 /\ row.is_on_track
    /\ est.plan.fuel_left = 1 /\ row.fuel_level = 2

\* C32: after every update that returns, race_laps_estimated is false
\* exactly when the server reported a limited lap count and race_tm_estimated
\* is false exactly when it reported a limited time, also when it reports
\* both unlimited.
C32_EstimatedIffNotReported ==
    (sys = "live" /\ row # RowNone)
        => /\ ~race.laps_estimated <=> Reported(row).laps # IRSDK_UNLIMITED_LAPS
           /\ ~race.tm_estimated <=> Reported(row).tm # IRSDK_UNLIMITED_TIME

====
